---- MODULE Spec2Model ----
(***************************************************************************)
(* quick-cli (src/src/main.rs): protocol classification of a VM            *)
(* definition, Remmina profile resolution, and the per-platform connection *)
(* fallback cascade driven by the key handlers of main.                    *)
(*                                                                         *)
(* Text is modelled at character level: a string is a sequence of          *)
(* one-character strings, a file's contents the sequence of its lines.     *)
(***************************************************************************)
EXTENDS Integers, Sequences, FiniteSets, TLC

VARIABLES
    config,       \* Config: os_type, default_spice_port, remmina_overrides
    vm_list,      \* App.vm_list: the file stems of the VM definitions
    files,        \* contents of each VM definition file (same index as vm_list)
    remmina_dir,  \* entries of ~/.local/share/remmina in enumeration order
    selected,     \* App.list_state.selected(): None or an index (0-based)
    logs,         \* App.logs: Vec<String>
    trace,        \* history: what the last command did, in order
    status,       \* "running" | "quit" | "panicked"
    env,          \* outside the process: listening ports, monitor sockets, build target
    ret,          \* history: value returned by the last function applied
    mutex         \* history: the lock() and unlock of App.logs by the last command

vars ==
    <<config, vm_list, files, remmina_dir, selected, logs, trace, status, env, ret, mutex>>

-----------------------------------------------------------------------------
(* Strings                                                                 *)

\* Option::None for an index or a parsed number
None == -1

\* std::result::Result::Err of str::parse::<u16>
ParseErr == -1

\* u16::MAX
U16Max == 65535

Digits == <<"0", "1", "2", "3", "4", "5", "6", "7", "8", "9">>

IsDigit(c) == \E d \in 1..10 : Digits[d] = c

DigitVal(c) == (CHOOSE d \in 1..10 : Digits[d] = c) - 1

\* char::is_whitespace, on the characters used here
IsWhitespace(c) == c \in {" ", "\t"}

\* char::to_lowercase, on the characters used here
LowerChar(c) ==
    CASE c = "W" -> "w"
      [] c = "I" -> "i"
      [] c = "N" -> "n"
      [] c = "X" -> "x"
      [] c = "T" -> "t"
      [] OTHER -> c

\* str::to_lowercase
to_lowercase(s) == [i \in 1..Len(s) |-> LowerChar(s[i])]

\* str::contains(&str)
contains(s, pat) ==
    \E i \in 0..(Len(s) - Len(pat)) : SubSeq(s, i + 1, i + Len(pat)) = pat

\* str::find(char): 0-based index of the first occurrence, or None
find(s, c) ==
    IF \E i \in 1..Len(s) : s[i] = c
    THEN (CHOOSE i \in 1..Len(s) : s[i] = c /\ \A j \in 1..(i - 1) : s[j] # c) - 1
    ELSE None

\* str::rfind(char): 0-based index of the last occurrence, or None
rfind(s, c) ==
    IF \E i \in 1..Len(s) : s[i] = c
    THEN (CHOOSE i \in 1..Len(s) : s[i] = c /\ \A j \in (i + 1)..Len(s) : s[j] # c) - 1
    ELSE None

\* &s[a..b] for 0-based a <= b <= len; the caller decides what a > b does
Slice(s, a, b) == SubSeq(s, a + 1, b)

\* str::split(char): the pieces between the delimiters, empty pieces included
RECURSIVE split(_, _)
split(s, c) ==
    LET p == find(s, c)
    IN  IF p = None
        THEN <<s>>
        ELSE <<SubSeq(s, 1, p)>> \o split(SubSeq(s, p + 2, Len(s)), c)

\* s.trim().is_empty()
TrimIsEmpty(s) == \A i \in 1..Len(s) : IsWhitespace(s[i])

\* Iterator::filter over a Vec
RECURSIVE FilterNonBlank(_)
FilterNonBlank(ps) ==
    IF ps = <<>>
    THEN <<>>
    ELSE IF TrimIsEmpty(Head(ps))
         THEN FilterNonBlank(Tail(ps))
         ELSE <<Head(ps)>> \o FilterNonBlank(Tail(ps))

\* value of a string of decimal digits
RECURSIVE DecValue(_)
DecValue(s) ==
    IF s = <<>> THEN 0 ELSE DecValue(SubSeq(s, 1, Len(s) - 1)) * 10 + DigitVal(s[Len(s)])

\* str::parse::<u16>: an optional '+', then one or more digits, value <= u16::MAX
ParseU16(s) ==
    LET body == IF s # <<>> /\ s[1] = "+" THEN Tail(s) ELSE s
        v == DecValue(body)
    IN  IF body = <<>> \/ \E i \in 1..Len(body) : ~IsDigit(body[i])
        THEN ParseErr
        ELSE IF v > U16Max THEN ParseErr ELSE v

-----------------------------------------------------------------------------
(* Protocol classifier                                                     *)

\* the marker looked for by line.contains("port_forwards")
PortForwardsMarker ==
    <<"p", "o", "r", "t", "_", "f", "o", "r", "w", "a", "r", "d", "s">>

\* guest ports recognised by parse_vm_config
RdpGuestPort == 3389

VncGuestPort == 5900

\* enum RemoteProtocol, plus the outcome "the thread panicked"
Rdp(p) == [kind |-> "Rdp", port |-> p]

Vnc(p) == [kind |-> "Vnc", port |-> p]

Spice(p) == [kind |-> "Spice", port |-> p]

Panicked == [kind |-> "panic", port |-> 0]

\* falling out of a loop body without returning
Continue == [kind |-> "continue", port |-> 0]

\* one iteration of `for mapping in parts`
ClassifyMapping(mapping) ==
    LET sp == split(mapping, ":")
    IN  IF Len(sp) # 2
        THEN Continue
        ELSE LET guest_port == ParseU16(sp[2])
                 host_port == ParseU16(sp[1])
             IN  IF guest_port = ParseErr
                 THEN Continue
                 ELSE IF guest_port = RdpGuestPort
                      THEN IF host_port # ParseErr THEN Rdp(host_port) ELSE Continue
                      ELSE IF guest_port = VncGuestPort
                           THEN IF host_port # ParseErr THEN Vnc(host_port) ELSE Continue
                           ELSE Continue

\* a scan in which a 3389 mapping wins over an earlier 5900 mapping
RECURSIVE ClassifyMappings_RdpWins(_)
ClassifyMappings_RdpWins(parts) ==
    IF parts = <<>>
    THEN Continue
    ELSE LET r == ClassifyMapping(Head(parts))
             later == ClassifyMappings_RdpWins(Tail(parts))
         IN  IF r.kind = "Rdp" \/ (r # Continue /\ later.kind # "Rdp") THEN r ELSE later

\* a scan of a line that gives up at the first mapping that does not parse
RECURSIVE ClassifyMappings_StopAtMalformed(_)
ClassifyMappings_StopAtMalformed(parts) ==
    IF parts = <<>>
    THEN Continue
    ELSE LET sp == split(Head(parts), ":")
             r == ClassifyMapping(Head(parts))
         IN  IF Len(sp) # 2 \/ ParseU16(sp[1]) = ParseErr \/ ParseU16(sp[2]) = ParseErr
             THEN Continue
             ELSE IF r # Continue THEN r ELSE ClassifyMappings_StopAtMalformed(Tail(parts))

\* `for mapping in parts`: the first iteration that returns decides
RECURSIVE ClassifyMappings(_)
ClassifyMappings(parts) ==
    IF parts = <<>>
    THEN Continue
    ELSE LET r == ClassifyMapping(Head(parts))
         IN  IF r # Continue THEN r ELSE ClassifyMappings(Tail(parts))

\* the body of `for line in contents.lines()`
ClassifyLine(line) ==
    IF ~contains(line, PortForwardsMarker)
    THEN Continue
    ELSE LET start == find(line, "(")
             end == rfind(line, ")")
         IN  IF start = None \/ end = None
             THEN Continue
             ELSE IF start + 1 > end
                  THEN Panicked     \* &line[start + 1..end]: slice index starts after its end
                  ELSE ClassifyMappings(
                           FilterNonBlank(split(Slice(line, start + 1, end), "\"")))

\* a scan that ends at the first line holding the marker, whatever it yields
RECURSIVE ClassifyLines_FirstMarkerOnly(_)
ClassifyLines_FirstMarkerOnly(lines) ==
    IF lines = <<>>
    THEN Continue
    ELSE IF contains(Head(lines), PortForwardsMarker)
         THEN ClassifyLine(Head(lines))
         ELSE ClassifyLines_FirstMarkerOnly(Tail(lines))

RECURSIVE ClassifyLines(_)
ClassifyLines(lines) ==
    IF lines = <<>>
    THEN Continue
    ELSE LET r == ClassifyLine(Head(lines))
         IN  IF r # Continue THEN r ELSE ClassifyLines(Tail(lines))

\* fs::read_to_string(vm_conf) failed
Unreadable == <<<<"\n">>>>

\* parse_vm_config(vm_conf, config), given the contents read from vm_conf
parse_vm_config(contents, cfg) ==
    LET r == IF contents = Unreadable THEN Continue ELSE ClassifyLines(contents)
    IN  IF r # Continue THEN r ELSE Spice(cfg.default_spice_port)

-----------------------------------------------------------------------------
(* Profile resolver                                                        *)

\* a PathBuf: its directory, file stem and extension
Path(dir, stem, ext) == [dir |-> dir, stem |-> stem, ext |-> ext]

NoPath == Path("", <<>>, "")

\* Option<PathBuf>, with whether the profile directory was read to compute it
SomePath(p, scanned) == [some |-> TRUE, path |-> p, scanned |-> scanned]

NonePath(scanned) == [some |-> FALSE, path |-> NoPath, scanned |-> scanned]

\* the directory scanned for profiles: home.join(".local/share/remmina")
RemminaDirName == "~/.local/share/remmina"

\* the loop over fs::read_dir(remmina_dir): entries kept in `matches`, in order
RECURSIVE ProfileMatches(_, _)
ProfileMatches(entries, vm_stem) ==
    IF entries = <<>>
    THEN <<>>
    ELSE LET e == Head(entries)
             rest == ProfileMatches(Tail(entries), vm_stem)
         IN  IF e.is_file /\ e.path.ext = "remmina"
                /\ contains(to_lowercase(e.path.stem), vm_stem)
             THEN <<e.path>> \o rest
             ELSE rest

\* `for m in &matches`: the first match whose lower-cased stem equals vm_stem
RECURSIVE FirstExact(_, _)
FirstExact(matches, vm_stem) ==
    IF matches = <<>>
    THEN NonePath(TRUE)
    ELSE IF to_lowercase(Head(matches).stem) = vm_stem
         THEN SomePath(Head(matches), TRUE)
         ELSE FirstExact(Tail(matches), vm_stem)

\* config.remmina_overrides.get(&vm_stem)
OverrideGet(cfg, vm_stem) ==
    IF vm_stem \in DOMAIN cfg.remmina_overrides
    THEN SomePath(cfg.remmina_overrides[vm_stem], FALSE)
    ELSE NonePath(FALSE)

\* an auto-detection that takes the first match, exact or not
AutoDetect_FirstMatch(vm_stem, dir) ==
    LET matches == ProfileMatches(dir, vm_stem)
    IN  IF matches = <<>> THEN NonePath(TRUE) ELSE SomePath(matches[1], TRUE)

\* the auto-detection half of remmina_profile_for_vm
AutoDetect(vm_stem, dir) ==
    LET matches == ProfileMatches(dir, vm_stem)
        exact == FirstExact(matches, vm_stem)
    IN  IF Len(matches) = 1
        THEN SomePath(matches[1], TRUE)
        ELSE IF exact.some
             THEN exact
             ELSE IF matches = <<>> THEN NonePath(TRUE) ELSE SomePath(matches[1], TRUE)

\* a resolution that consults the override only when auto-detection finds nothing
remmina_profile_for_vm_AutoFirst(vm, cfg, dir) ==
    LET vm_stem == to_lowercase(vm)
        auto == AutoDetect(vm_stem, dir)
    IN  IF auto.some THEN auto ELSE OverrideGet(cfg, vm_stem)

\* remmina_profile_for_vm(vm_conf, config), vm the file stem of vm_conf
remmina_profile_for_vm(vm, cfg, dir) ==
    LET vm_stem == to_lowercase(vm)
        ov == OverrideGet(cfg, vm_stem)
    IN  IF ov.some THEN ov ELSE AutoDetect(vm_stem, dir)

\* load_config, "override" arm: the key is lower-cased before it is inserted
InsertOverride(overrides, key, path) ==
    [k \in DOMAIN overrides \cup {to_lowercase(key)} |->
        IF k = to_lowercase(key) THEN path ELSE overrides[k]]

-----------------------------------------------------------------------------
(* Running one command: the log and the history of what was done.  Whether *)
(* a process spawn creates the process is decided outside the program, so  *)
(* a function that spawns yields the set of runs it can end in.            *)

\* an entry of the history: the function it happened in, what happened
Ev(fn, ev, what, ok, port) ==
    [fn |-> fn, ev |-> ev, what |-> what, ok |-> ok, port |-> port]

\* state threaded through a command: logs, history, last result, and the
\* history of the log mutex
Run0(l) == [logs |-> l, trace |-> <<>>, ok |-> FALSE, panicked |-> FALSE, mutex |-> <<>>]

\* the mutex is held: its last lock() has not been released
Held(r) == r.mutex # <<>> /\ r.mutex[Len(r.mutex)].op = "lock"

\* logs.lock().unwrap(), after `at` entries of the history; a second lock() on
\* the thread that holds the mutex deadlocks or panics, and the command does
\* not complete
Lock(r) ==
    [r EXCEPT !.mutex = Append(@, [op |-> "lock", at |-> Len(r.trace)]),
              !.panicked = @ \/ Held(r)]

\* drop(l), or the end of the block the guard lives in
Unlock(r) == [r EXCEPT !.mutex = Append(@, [op |-> "unlock", at |-> Len(r.trace)])]

\* l.push(line)
Push(r, fn, line) ==
    [r EXCEPT !.logs = Append(@, line),
              !.trace = Append(@, Ev(fn, "log", line, TRUE, 0))]

\* a logging that keeps the guard
Log_HoldsLock(r, fn, line) == Push(Lock(r), fn, line)

\* a push that keeps only the newest line
Log_KeepNewest(r, fn, line) ==
    [r EXCEPT !.logs = <<line>>,
              !.trace = Append(@, Ev(fn, "log", line, TRUE, 0))]

\* let mut l = logs.lock().unwrap(); l.push(line); drop(l) (or the end of the
\* block): every logging of the program has this shape
Log(r, fn, line) == Unlock(Push(Lock(r), fn, line))

\* Command::new(..)...spawn() with result.is_ok(): either outcome
Spawn(r, fn, cmd) ==
    { [r EXCEPT !.ok = b, !.trace = Append(@, Ev(fn, "spawn", cmd, b, 0))] :
        b \in BOOLEAN }

\* entering a function, with the port it was handed
Call(r, fn, port) == [r EXCEPT !.trace = Append(@, Ev(fn, "call", fn, TRUE, port))]

\* a function returning `b`
Return(r, b) == [r EXCEPT !.ok = b]

\* a call of parse_vm_config; a panic unwinds the command
Classify(r, fn, proto) ==
    [r EXCEPT !.trace = Append(@, Ev(fn, "classify", proto.kind, TRUE, proto.port)),
              !.panicked = (proto = Panicked)]

\* a call of remmina_profile_for_vm
Resolve(r, fn, prof) ==
    [r EXCEPT !.trace =
        Append(@, Ev(fn, "resolve", IF prof.scanned THEN "scanned" ELSE "override",
                     prof.some, 0))]

-----------------------------------------------------------------------------
(* Platform-specific connection functions                                  *)

connect_rdp_windows(r, host_port) ==
    LET fn == "connect_rdp_windows"
        r1 == Log(Call(r, fn, host_port), fn, "Connecting via Windows RDP to port")
    IN  Spawn(r1, fn, "mstsc.exe /v:")

connect_rdp_macos(r, host_port) ==
    LET fn == "connect_rdp_macos"
        r1 == Log(Call(r, fn, host_port), fn, "Connecting via macOS RDP (Microsoft Remote Desktop)")
    IN  Spawn(r1, fn, "open rdp://")

\* connect_rdp_linux and connect_vnc_linux differ in the log line, the protocol
\* flag and the last viewer
ConnectUrlLinux(r, fn, host_port, prof, line, cmd, viewer) ==
    LET r0 == Resolve(Call(r, fn, host_port), fn, prof)
        first == IF prof.some
                 THEN Spawn(Log(r0, fn, "Connecting using Remmina profile"),
                            fn, "remote_app --quiet -c profile")
                 ELSE {r0}
    IN  UNION { IF prof.some /\ r1.ok
                THEN {Return(r1, TRUE)}
                ELSE UNION { IF r3.ok THEN {Return(r3, TRUE)} ELSE Spawn(r3, fn, viewer) :
                               r3 \in Spawn(Log(r1, fn, line), fn, cmd) } :
                r1 \in first }

connect_rdp_linux(r, host_port, prof) ==
    ConnectUrlLinux(r, "connect_rdp_linux", host_port, prof,
                    "Connecting via RDP URL", "remote_app --quiet -p rdp", "xfreerdp")

connect_vnc_windows(r, host_port) ==
    LET fn == "connect_vnc_windows"
        r1 == Log(Call(r, fn, host_port), fn, "Connecting via Windows VNC to port")
    IN  UNION { IF r2.ok THEN {Return(r2, TRUE)} ELSE Spawn(r2, fn, "vncviewer") :
                r2 \in Spawn(r1, fn, "tvnviewer") }

connect_vnc_macos(r, host_port) ==
    LET fn == "connect_vnc_macos"
        r1 == Log(Call(r, fn, host_port), fn, "Connecting via macOS Screen Sharing (VNC)")
    IN  Spawn(r1, fn, "open vnc://")

connect_vnc_linux(r, host_port, prof) ==
    ConnectUrlLinux(r, "connect_vnc_linux", host_port, prof,
                    "Connecting via VNC URL", "remote_app --quiet -p vnc", "vncviewer")

\* connect_spice_windows and connect_spice_macos differ in the log line and the viewer
ConnectSpiceProfile(r, fn, spice_port, prof, line, viewer) ==
    LET r0 == Resolve(Log(Call(r, fn, spice_port), fn, line), fn, prof)
        first == IF prof.some
                 THEN Spawn(Log(r0, fn, "Using override Remmina profile for SPICE"),
                            fn, "remote_app -c profile")
                 ELSE {r0}
    IN  UNION { IF prof.some /\ r1.ok THEN {Return(r1, TRUE)} ELSE Spawn(r1, fn, viewer) :
                r1 \in first }

connect_spice_windows(r, spice_port, prof) ==
    ConnectSpiceProfile(r, "connect_spice_windows", spice_port, prof,
                        "Connecting via SPICE on Windows to port", "virt-viewer spice://")

connect_spice_macos(r, spice_port, prof) ==
    ConnectSpiceProfile(r, "connect_spice_macos", spice_port, prof,
                        "Connecting via SPICE on macOS using Remote Viewer", "open spice://")

\* the process id of a spawned child is never 0, so `result.id() > 0` holds
connect_spice_linux(r, spice_port) ==
    LET fn == "connect_spice_linux"
    IN  UNION { IF r1.ok
                THEN {Return(r1, TRUE)}
                ELSE UNION { IF r3.ok
                             THEN {Return(r3, TRUE)}
                             ELSE Spawn(Log(r3, fn, "spicy launch failed, trying remote-viewer..."),
                                        fn, "remote-viewer") :
                             r3 \in Spawn(Log(r1, fn, "Remmina SPICE launch failed, trying spicy..."),
                                          fn, "spicy") } :
                r1 \in Spawn(Call(r, fn, spice_port), fn, "remote_app --quiet -p spice") }

\* the three-way branch on config.os_type around the connect_spice_* calls
ConnectSpice(r, cfg, spice_port, prof) ==
    IF cfg.os_type = "windows"
    THEN connect_spice_windows(r, spice_port, prof)
    ELSE IF cfg.os_type = "macos"
         THEN connect_spice_macos(r, spice_port, prof)
         ELSE connect_spice_linux(r, spice_port)

-----------------------------------------------------------------------------
(* VM launching and connection                                             *)

\* a forced connect that tries a VNC viewer before the SPICE cascade
force_spice_connect_VncFirst(r, vm, cfg, dir) ==
    LET fn == "force_spice_connect"
        spice_port == cfg.default_spice_port
    IN  UNION { IF f.ok
                THEN {f}
                ELSE ConnectSpice(f, cfg, spice_port, remmina_profile_for_vm(vm, cfg, dir)) :
                f \in connect_vnc_windows(Call(r, fn, spice_port), VncGuestPort) }

\* force_spice_connect(vm_conf, config, logs)
force_spice_connect(r, vm, cfg, dir) ==
    LET fn == "force_spice_connect"
        spice_port == cfg.default_spice_port
    IN  ConnectSpice(Call(r, fn, spice_port), cfg, spice_port,
                     remmina_profile_for_vm(vm, cfg, dir))

\* connect_vm: the arms Rdp and Vnc of `match parse_vm_config(..)`, before the
\* fallback to SPICE
ConnectRdpOrVnc(r, cfg, proto, prof) ==
    LET os == cfg.os_type
    IN  IF proto.kind = "Rdp"
        THEN IF os = "windows"
             THEN connect_rdp_windows(r, proto.port)
             ELSE IF os = "macos"
                  THEN connect_rdp_macos(r, proto.port)
                  ELSE connect_rdp_linux(r, proto.port, prof)
        ELSE IF os = "windows"
             THEN connect_vnc_windows(r, proto.port)
             ELSE IF os = "macos"
                  THEN connect_vnc_macos(r, proto.port)
                  ELSE connect_vnc_linux(r, proto.port, prof)

\* a match that runs the SPICE cascade whether or not the RDP/VNC cascade spawned
ConnectByProtocol_AlwaysSpice(r, cfg, proto, prof) ==
    IF proto.kind = "Spice"
    THEN ConnectSpice(r, cfg, proto.port, prof)
    ELSE UNION { ConnectSpice(f, cfg, cfg.default_spice_port, prof) :
                 f \in ConnectRdpOrVnc(r, cfg, proto, prof) }

\* a match that never falls back to the SPICE cascade
ConnectByProtocol_NoFallback(r, cfg, proto, prof) ==
    IF proto.kind = "Spice"
    THEN ConnectSpice(r, cfg, proto.port, prof)
    ELSE ConnectRdpOrVnc(r, cfg, proto, prof)

\* connect_vm, the `match parse_vm_config(..)`
ConnectByProtocol(r, cfg, proto, prof) ==
    IF proto.kind = "Spice"
    THEN ConnectSpice(r, cfg, proto.port, prof)
    ELSE UNION { IF ~f.ok
                 THEN ConnectSpice(f, cfg, cfg.default_spice_port, prof)
                 ELSE {f} :
                 f \in ConnectRdpOrVnc(r, cfg, proto, prof) }

\* a connect_vm that goes on to the protocol cascade after the profile launch spawned
ConnectVm_NoEarlyReturn(r, cfg, prof, proto) ==
    LET fn == "connect_vm"
        r0 == Resolve(Call(r, fn, 0), fn, prof)
        first == IF prof.some
                 THEN Spawn(Log(r0, fn, "Profile found. Launching Remmina with profile"),
                            fn, "remote_app -c profile")
                 ELSE {r0}
    IN  UNION { ConnectByProtocol(Classify(r1, fn, proto), cfg, proto, prof) : r1 \in first }

\* a connect_vm that gives up when the profile launch fails to spawn
ConnectVm_EndsOnFailedProfile(r, cfg, prof, proto) ==
    LET fn == "connect_vm"
        r0 == Resolve(Call(r, fn, 0), fn, prof)
        first == IF prof.some
                 THEN Spawn(Log(r0, fn, "Profile found. Launching Remmina with profile"),
                            fn, "remote_app -c profile")
                 ELSE {r0}
    IN  UNION { IF prof.some
                THEN {Return(r1, r1.ok)}
                ELSE ConnectByProtocol(Classify(r1, fn, proto), cfg, proto, prof) :
                r1 \in first }

\* a connect_vm that launches the profile a second time when the launch failed
ConnectVm_RetryProfile(r, cfg, prof, proto) ==
    LET fn == "connect_vm"
        r0 == Resolve(Call(r, fn, 0), fn, prof)
        first == IF prof.some
                 THEN Spawn(Log(r0, fn, "Profile found. Launching Remmina with profile"),
                            fn, "remote_app -c profile")
                 ELSE {r0}
        again == IF prof.some
                 THEN UNION { IF r1.ok THEN {r1} ELSE Spawn(r1, fn, "remote_app -c profile") :
                              r1 \in first }
                 ELSE first
    IN  UNION { IF prof.some /\ r1.ok
                THEN {Return(r1, TRUE)}
                ELSE ConnectByProtocol(Classify(r1, fn, proto), cfg, proto, prof) :
                r1 \in again }

\* connect_vm, given what its calls of remmina_profile_for_vm and of
\* parse_vm_config return; the callees resolve the profile again, from the same
\* configuration and directory
ConnectVm(r, cfg, prof, proto) ==
    LET fn == "connect_vm"
        r0 == Resolve(Call(r, fn, 0), fn, prof)
        first == IF prof.some
                 THEN Spawn(Log(r0, fn, "Profile found. Launching Remmina with profile"),
                            fn, "remote_app -c profile")
                 ELSE {r0}
    IN  UNION { IF prof.some /\ r1.ok
                THEN {Return(r1, TRUE)}
                ELSE LET r2 == IF prof.some
                               THEN Log(r1, fn, "Failed to launch Remmina with profile; falling back to normal connection.")
                               ELSE r1
                         r3 == Classify(r2, fn, proto)
                     IN  IF r3.panicked
                         THEN {r3}
                         ELSE ConnectByProtocol(r3, cfg, proto, prof) :
                r1 \in first }

\* connect_vm(vm_conf, config, logs)
connect_vm(r, vm, contents, cfg, dir) ==
    ConnectVm(r, cfg, remmina_profile_for_vm(vm, cfg, dir), parse_vm_config(contents, cfg))

\* the settle delay after a successful hypervisor spawn, in seconds
SettleDelaySecs == 2

\* a start_vm that passes the no-display flag whatever the protocol
StartVm_AlwaysHeadless(r, proto) ==
    LET fn == "start_vm"
        r0 == Classify(Call(r, fn, 0), fn, proto)
        r1 == Log(r0, fn, "Launching VM headless...")
    IN  IF r0.panicked
        THEN {r0}
        ELSE { IF r2.ok
               THEN [r2 EXCEPT !.trace = Append(@, Ev(fn, "sleep", "thread::sleep", TRUE,
                                                      SettleDelaySecs))]
               ELSE Log(r2, fn, "Error launching VM") :
               r2 \in Spawn(r1, fn, "quickemu --vm --display none") }

\* a start_vm that returns right after the spawn, without the settle delay
StartVm_NoSettle(r, proto) ==
    LET fn == "start_vm"
        r0 == Classify(Call(r, fn, 0), fn, proto)
        headless == proto.kind \in {"Rdp", "Vnc"}
        r1 == IF headless
              THEN Log(r0, fn, "Launching VM headless...")
              ELSE Log(r0, fn, "Launching VM normally...")
    IN  IF r0.panicked
        THEN {r0}
        ELSE { IF r2.ok THEN r2 ELSE Log(r2, fn, "Error launching VM") :
               r2 \in Spawn(r1, fn, IF headless THEN "quickemu --vm --display none"
                                                ELSE "quickemu --vm") }

\* start_vm, given what its call of parse_vm_config returns
StartVm(r, proto) ==
    LET fn == "start_vm"
        r0 == Classify(Call(r, fn, 0), fn, proto)
        headless == proto.kind \in {"Rdp", "Vnc"}
        r1 == IF headless
              THEN Log(r0, fn, "Launching VM headless...")
              ELSE Log(r0, fn, "Launching VM normally...")
    IN  IF r0.panicked
        THEN {r0}
        ELSE { IF r2.ok
               THEN [r2 EXCEPT !.trace = Append(@, Ev(fn, "sleep", "thread::sleep", TRUE,
                                                      SettleDelaySecs))]
               ELSE Log(r2, fn, "Error launching VM") :
               r2 \in Spawn(r1, fn, IF headless THEN "quickemu --vm --display none"
                                                ELSE "quickemu --vm") }

\* start_vm(vm_conf, config, logs)
start_vm(r, contents, cfg) == StartVm(r, parse_vm_config(contents, cfg))

\* a stop_vm that reports the kill request as issued whether or not it spawned
stop_vm_AlwaysIssued(r) ==
    LET fn == "stop_vm"
    IN  { Log(r1, fn, "Stop command issued.") :
          r1 \in Spawn(Log(Call(r, fn, 0), fn, "Stopping VM..."), fn, "quickemu --kill --vm") }

\* stop_vm(vm_conf, config, logs)
stop_vm(r) ==
    LET fn == "stop_vm"
    IN  { IF r1.ok
          THEN Log(r1, fn, "Stop command issued.")
          ELSE Log(r1, fn, "Error stopping VM") :
          r1 \in Spawn(Log(Call(r, fn, 0), fn, "Stopping VM..."), fn, "quickemu --kill --vm") }

-----------------------------------------------------------------------------
(* Running detection                                                       *)

\* is_port_open("127.0.0.1", port, timeout): the address always parses
is_port_open(port, e) == port \in e.open_ports

\* age in seconds below which a monitor socket counts as live
MonitorFreshSecs == 10

\* what elapsed() is replaced by when the modification time lies in the future
ElapsedErrSecs == 100

\* a freshness test that still accepts an age of exactly the limit
is_spice_vm_running_AtMost(i, cfg, e) ==
    IF e.unix
    THEN LET meta == e.monitor[i]
         IN  /\ meta.exists
             /\ meta.is_socket
             /\ meta.mtime_ok
             /\ (IF meta.age < 0 THEN ElapsedErrSecs ELSE meta.age) <= MonitorFreshSecs
    ELSE is_port_open(cfg.default_spice_port, e)

\* is_spice_vm_running: #[cfg(unix)] reads the monitor socket's metadata,
\* #[cfg(not(unix))] probes the default SPICE port
is_spice_vm_running(i, cfg, e) ==
    IF e.unix
    THEN LET meta == e.monitor[i]
         IN  /\ meta.exists
             /\ meta.is_socket
             /\ meta.mtime_ok
             /\ (IF meta.age < 0 THEN ElapsedErrSecs ELSE meta.age) < MonitorFreshSecs
    ELSE is_port_open(cfg.default_spice_port, e)

\* is_vm_running, given the protocol parse_vm_config returned
is_vm_running(proto, i, cfg, e) ==
    IF proto.kind \in {"Rdp", "Vnc"}
    THEN is_port_open(proto.port, e)
    ELSE is_spice_vm_running(i, cfg, e)

-----------------------------------------------------------------------------
(* Inputs: VM definitions, profile directories, configurations             *)

Quoted(f) == <<"\"">> \o f \o <<"\"">>

RECURSIVE JoinQuoted(_)
JoinQuoted(fs) ==
    IF fs = <<>>
    THEN <<>>
    ELSE IF Len(fs) = 1
         THEN Quoted(fs[1])
         ELSE Quoted(fs[1]) \o <<" ">> \o JoinQuoted(Tail(fs))

\* port_forwards=("a:b" "c:d")
PfLine(fs) == PortForwardsMarker \o <<"=", "(">> \o JoinQuoted(fs) \o <<")">>

FragSsh == <<"2", "2", "2", "2", ":", "2", "2">>

FragRdp == <<"1", "3", "3", "8", "9", ":", "3", "3", "8", "9">>

FragRdpB == <<"3", "3", "9", "0", ":", "3", "3", "8", "9">>

FragVnc == <<"5", "9", "0", "1", ":", "5", "9", "0", "0">>

\* host port that is not a number
FragBadHost == <<"x", ":", "3", "3", "8", "9">>

\* host port above u16::MAX
FragBigHost == <<"7", "0", "0", "0", "0", ":", "5", "9", "0", "0">>

\* three ':'-separated parts
FragThree == <<"1", ":", "2", ":", "3", "3", "8", "9">>

\* first '(' after the last ')'
LineInverted == PortForwardsMarker \o <<"=", ")", "(">>

\* a lone '(' and no ')'
LineOpenOnly == PortForwardsMarker \o <<"=", "(">> \o Quoted(FragRdp)

\* a mapping with no parentheses around it
LineNoParens == PortForwardsMarker \o <<"=">> \o Quoted(FragRdp)

\* a mapping on a line without the marker
LineNoMarker == <<"f", "w", "d", "=", "(">> \o Quoted(FragVnc) \o <<")">>

\* the VM definitions of the main specification
DefSpice == <<LineNoMarker>>

DefRdp == <<PfLine(<<FragSsh, FragRdp>>)>>

DefVnc == <<PfLine(<<FragVnc>>)>>

DefInverted == <<LineInverted>>

Definitions == {DefSpice, DefRdp, DefVnc, DefInverted, Unreadable}

VmWin == <<"W", "i", "n">>

VmX == <<"x">>

ProfWinTest == [path |-> Path(RemminaDirName, <<"w", "i", "n", "-", "t">>, "remmina"),
                is_file |-> TRUE]

ProfWINExact == [path |-> Path(RemminaDirName, <<"W", "I", "N">>, "remmina"),
                 is_file |-> TRUE]

ProfXWin == [path |-> Path(RemminaDirName, <<"x", "w", "i", "n">>, "remmina"),
             is_file |-> TRUE]

ProfWinTxt == [path |-> Path(RemminaDirName, <<"w", "i", "n">>, "txt"), is_file |-> TRUE]

ProfWinDir == [path |-> Path(RemminaDirName, <<"w", "i", "n">>, "remmina"),
               is_file |-> FALSE]

ProfOther == [path |-> Path(RemminaDirName, <<"d", "e", "b">>, "remmina"), is_file |-> TRUE]

OverridePath == Path("/profiles", <<"w", "1", "1">>, "remmina")

NoOverrides == <<>>

\* Config::default_spice_port as load_config leaves it: the default or a configured one
DefaultSpicePort == 5930

Configs ==
    { [os_type |-> os, default_spice_port |-> p, remmina_overrides |-> ov] :
        os \in {"windows", "macos", "linux"},
        p \in {DefaultSpicePort, DefaultSpicePort + 1},
        ov \in {NoOverrides, InsertOverride(NoOverrides, <<"W", "I", "n">>, OverridePath)} }

\* metadata of a VM's monitor socket path
Meta(exists, is_socket, mtime_ok, age) ==
    [exists |-> exists, is_socket |-> is_socket, mtime_ok |-> mtime_ok, age |-> age]

MetaMissing == Meta(FALSE, FALSE, FALSE, 0)

MetaFresh == Meta(TRUE, TRUE, TRUE, 3)

\* nothing listens and no monitor socket exists / every VM is up
EnvDown(n) == [open_ports |-> {}, monitor |-> [i \in 1..n |-> MetaMissing], unix |-> TRUE]

EnvUp(n) ==
    [open_ports |-> {13389, 5901}, monitor |-> [i \in 1..n |-> MetaFresh], unix |-> TRUE]

\* the environments the program can meet with n VMs
Worlds(n) == {EnvDown(n), EnvUp(n)}

-----------------------------------------------------------------------------
(* Configuration file                                                      *)

\* str::trim
trim(s) ==
    IF TrimIsEmpty(s)
    THEN <<>>
    ELSE LET a == CHOOSE i \in 1..Len(s) :
                     ~IsWhitespace(s[i]) /\ \A j \in 1..(i - 1) : IsWhitespace(s[j])
             b == CHOOSE i \in 1..Len(s) :
                     ~IsWhitespace(s[i]) /\ \A j \in (i + 1)..Len(s) : IsWhitespace(s[j])
         IN  SubSeq(s, a, b)

\* str::split_once(char): the text before and after the first delimiter
split_once(s, c) ==
    LET p == find(s, c)
    IN  IF p = None
        THEN [some |-> FALSE, key |-> <<>>, value |-> <<>>]
        ELSE [some |-> TRUE, key |-> SubSeq(s, 1, p), value |-> SubSeq(s, p + 2, Len(s))]

\* the keys load_config matches
KeyRemoteApp == <<"r", "e", "m", "o", "t", "e", "_", "a", "p", "p">>

KeyQuickemuDir == <<"q", "u", "i", "c", "k", "e", "m", "u", "_", "d", "i", "r">>

KeyDefaultSpicePort ==
    <<"d", "e", "f", "a", "u", "l", "t", "_", "s", "p", "i", "c", "e", "_", "p", "o",
      "r", "t">>

KeyOsType == <<"o", "s", "_", "t", "y", "p", "e">>

KeyOverride == <<"o", "v", "e", "r", "r", "i", "d", "e">>

\* the platform's names and default clients, as load_config spells them
OsLinux == <<"l", "i", "n", "u", "x">>

OsMacos == <<"m", "a", "c", "o", "s">>

OsWindows == <<"w", "i", "n", "d", "o", "w", "s">>

DirQuickemu == <<"~", "/", ".", "q", "u", "i", "c", "k", "e", "m", "u">>

\* the client load_config starts from on a platform
DefaultRemoteApp(os) ==
    IF os = OsWindows
    THEN <<"m", "s", "t", "s", "c", ".", "e", "x", "e">>
    ELSE IF os = OsMacos THEN <<"o", "p", "e", "n">> ELSE <<"r", "e", "m", "m", "i", "n", "a">>

\* the Config load_config starts from on a platform; the fields are texts here,
\* as the file gives them
DefaultConfig(os) ==
    [remote_app |-> DefaultRemoteApp(os),
     quickemu_dir |-> DirQuickemu,
     default_spice_port |-> DefaultSpicePort,
     os_type |-> os,
     remmina_overrides |-> NoOverrides]

\* a port line that puts the default back when its value is no number
ApplyPort_ResetsOnError(cfg, value) ==
    [cfg EXCEPT !.default_spice_port =
        IF ParseU16(trim(value)) # ParseErr THEN ParseU16(trim(value)) ELSE DefaultSpicePort]

\* "default_spice_port" => if let Ok(p) = value.trim().parse::<u16>()
ApplyPort(cfg, value) ==
    IF ParseU16(trim(value)) # ParseErr
    THEN [cfg EXCEPT !.default_spice_port = ParseU16(trim(value))]
    ELSE cfg

\* "override" => the two trimmed parts of value.split(',')
ApplyOverride(cfg, value) ==
    LET pieces == split(value, ",")
        parts == [i \in 1..Len(pieces) |-> trim(pieces[i])]
    IN  IF Len(parts) = 2
        THEN [cfg EXCEPT !.remmina_overrides = InsertOverride(@, parts[1], parts[2])]
        ELSE cfg

\* the body of load_config's loop for one line
ApplyLine(cfg, line) ==
    LET kv == split_once(line, "=")
        key == trim(kv.key)
    IN  IF ~kv.some
        THEN cfg
        ELSE CASE key = KeyRemoteApp -> [cfg EXCEPT !.remote_app = trim(kv.value)]
               [] key = KeyQuickemuDir -> [cfg EXCEPT !.quickemu_dir = trim(kv.value)]
               [] key = KeyDefaultSpicePort -> ApplyPort(cfg, kv.value)
               [] key = KeyOsType -> [cfg EXCEPT !.os_type = trim(kv.value)]
               [] key = KeyOverride -> ApplyOverride(cfg, kv.value)
               [] OTHER -> cfg

\* for line in contents.lines(): the Config after each line, in order
RECURSIVE LoadLines(_, _)
LoadLines(cfg, lines) ==
    IF lines = <<>>
    THEN <<>>
    ELSE <<ApplyLine(cfg, Head(lines))>> \o LoadLines(ApplyLine(cfg, Head(lines)), Tail(lines))

\* a configuration file that does not exist
NoConfigFile == <<<<"\r">>>>

\* the lines load_config loops over: none when the file is missing (the
\* default is returned) or unreadable (unwrap_or_default)
ConfigLines(contents) == IF contents \in {NoConfigFile, Unreadable} THEN <<>> ELSE contents

\* load_config, on a platform and a configuration file
load_config(os, contents) ==
    LET after == LoadLines(DefaultConfig(os), ConfigLines(contents))
    IN  IF after = <<>> THEN DefaultConfig(os) ELSE after[Len(after)]

-----------------------------------------------------------------------------
(* The program: main's key handlers                                        *)

\* commands are accepted while the log holds at most this many lines
MaxLog == 2

\* over an empty list, wrapped arithmetic walks the selection this far from 0
\* and from usize::MAX
MaxSelected == 2

\* stands for usize::MAX: 0usize - 1 in a build without overflow checks
UsizeMax == 2147483647

\* the VM catalogs: the files list_vms found in quickemu_dir, with their contents
Catalogs ==
    {[vms |-> <<>>, defs |-> <<>>]}
    \cup {[vms |-> <<VmWin>>, defs |-> <<d>>] : d \in Definitions}
    \cup {[vms |-> <<VmX, VmWin>>, defs |-> <<dx, d>>] :
             dx \in {DefRdp}, d \in Definitions}

ProfileDirs == {<<>>, <<ProfOther, ProfWinTest>>, <<ProfXWin, ProfWINExact>>}

\* App::new(vm_list): the first VM is selected when there is one
AppNewSelected(vms) == IF vms # <<>> THEN 0 ELSE None

Init ==
    /\ config \in Configs
    /\ \E c \in Catalogs :
          /\ vm_list = c.vms
          /\ files = c.defs
          /\ env \in Worlds(Len(c.vms))
    /\ remmina_dir \in ProfileDirs
    /\ selected = AppNewSelected(vm_list)
    /\ logs = <<"Application started.">>
    /\ trace = <<>>
    /\ status = "running"
    /\ ret = Continue
    /\ mutex = <<>>

Accepting == status = "running" /\ Len(logs) <= MaxLog

\* the state after a command that ran as r
Commit(r) ==
    /\ logs' = r.logs
    /\ trace' = r.trace
    /\ mutex' = r.mutex
    /\ status' = IF r.panicked THEN "panicked" ELSE status
    /\ UNCHANGED <<config, vm_list, files, remmina_dir, selected, env, ret>>

\* `&app.vm_list[i]` panics when i is out of bounds
IndexPanic(r) == [r EXCEPT !.panicked = TRUE]

InBounds == selected < Len(vm_list)

\* KeyCode::Char('q')
Quit ==
    /\ Accepting
    /\ status' = "quit"
    /\ trace' = <<>>
    /\ mutex' = <<>>
    /\ UNCHANGED <<config, vm_list, files, remmina_dir, selected, logs, env, ret>>

\* app.list_state.select(Some(i))
Select(i) ==
    /\ selected' = i
    /\ trace' = <<>>
    /\ mutex' = <<>>
    /\ UNCHANGED <<config, vm_list, files, remmina_dir, logs, status, env, ret>>

\* `app.vm_list.len() - 1` on an empty list: a panic with overflow checks,
\* usize::MAX without
Underflow(then) ==
    \/ /\ status' = "panicked"
       /\ trace' = <<>>
       /\ mutex' = <<>>
       /\ UNCHANGED <<config, vm_list, files, remmina_dir, selected, logs, env, ret>>
    \/ then

\* KeyCode::Down | KeyCode::Char('j')
KeyDown ==
    /\ Accepting
    /\ IF selected = None
       THEN Select(0)
       ELSE IF vm_list = <<>>
            THEN Underflow(IF selected >= UsizeMax
                           THEN Select(0)
                           ELSE selected + 1 <= MaxSelected /\ Select(selected + 1))
            ELSE IF selected >= Len(vm_list) - 1 THEN Select(0) ELSE Select(selected + 1)

\* KeyCode::Up | KeyCode::Char('k')
KeyUp ==
    /\ Accepting
    /\ IF selected = None \/ selected = 0
       THEN IF vm_list = <<>>
            THEN Underflow(Select(UsizeMax))
            ELSE Select(Len(vm_list) - 1)
       ELSE /\ vm_list = <<>> /\ selected > MaxSelected => selected > UsizeMax - MaxSelected
            /\ Select(selected - 1)

\* `&app.vm_list[i]` with i out of bounds panics before anything else is done
Selected(runs) == IF InBounds THEN runs ELSE {IndexPanic(Run0(logs))}

\* KeyCode::Char('r')
KeyR ==
    /\ Accepting
    /\ selected # None
    /\ \E r \in Selected(start_vm(Run0(logs), files[selected + 1], config)) : Commit(r)

\* an Enter that connects only when the hypervisor spawned
StartAndConnect_OnlyIfStarted(i) ==
    UNION { IF r.panicked \/ ~r.ok
            THEN {r}
            ELSE connect_vm(r, vm_list[i], files[i], config, remmina_dir) :
            r \in start_vm(Run0(logs), files[i], config) }

\* KeyCode::Enter: start_vm, then connect_vm
StartAndConnect(i) ==
    UNION { IF r.panicked
            THEN {r}
            ELSE connect_vm(r, vm_list[i], files[i], config, remmina_dir) :
            r \in start_vm(Run0(logs), files[i], config) }

KeyEnter ==
    /\ Accepting
    /\ selected # None
    /\ \E r \in Selected(StartAndConnect(selected + 1)) : Commit(r)

\* a 'connect running' that connects whatever the probe reported
ConnectIfRunning_Always(i, proto) ==
    LET fn == "is_vm_running"
        r0 == Classify(Call(Run0(logs), fn, 0), fn, proto)
        up == is_vm_running(proto, i, config, env)
        r1 == [r0 EXCEPT !.trace = Append(@, Ev(fn, "probe", fn, up, proto.port))]
    IN  IF r0.panicked
        THEN {r0}
        ELSE connect_vm(r1, vm_list[i], files[i], config, remmina_dir)

\* KeyCode::Char('c'), given what is_vm_running's call of parse_vm_config returns:
\* connect_vm when is_vm_running, a log line otherwise
ConnectIfRunning(i, proto) ==
    LET fn == "is_vm_running"
        r0 == Classify(Call(Run0(logs), fn, 0), fn, proto)
        up == is_vm_running(proto, i, config, env)
        r1 == [r0 EXCEPT !.trace = Append(@, Ev(fn, "probe", fn, up, proto.port))]
    IN  IF r0.panicked
        THEN {r0}
        ELSE IF up
             THEN connect_vm(r1, vm_list[i], files[i], config, remmina_dir)
             ELSE {Log(r1, "main", "VM is not running; cannot connect.")}

ConnectRunning(i) == ConnectIfRunning(i, parse_vm_config(files[i], config))

KeyC ==
    /\ Accepting
    /\ selected # None
    /\ \E r \in Selected(ConnectRunning(selected + 1)) : Commit(r)

\* KeyCode::Char('v')
ForceConnect(i) ==
    force_spice_connect(Log(Run0(logs), "main", "Force SPICE connect."),
                        vm_list[i], config, remmina_dir)

KeyV ==
    /\ Accepting
    /\ selected # None
    /\ \E r \in Selected(ForceConnect(selected + 1)) : Commit(r)

\* KeyCode::Char('s')
KeyS ==
    /\ Accepting
    /\ selected # None
    /\ \E r \in Selected(stop_vm(Run0(logs))) : Commit(r)

\* is_vm_running(vm_conf, config) as the render closure calls it, given what its
\* call of parse_vm_config returns and the environment e it probes
IsVmRunning(r, i, proto, e) ==
    LET fn == "is_vm_running"
        r0 == Classify(Call(r, fn, 0), fn, proto)
        up == is_vm_running(proto, i, config, e)
    IN  IF r0.panicked
        THEN r0
        ELSE Return([r0 EXCEPT !.trace = Append(@, Ev(fn, "probe", fn, up, proto.port))], up)

\* one list item of the render closure: is_vm_running decides the spinner, and
\* is called again to decide the style; `first` and `second` are what the two
\* calls of parse_vm_config return, e1 and e2 the environments the two calls
\* probe
RenderItem(r, i, first, second, e1, e2) ==
    LET r1 == IsVmRunning(r, i, first, e1)
    IN  IF r1.panicked THEN r1 ELSE IsVmRunning(r1, i, second, e2)

\* what parse_vm_config returns for the definitions and configurations of Init
Classification == [d \in Definitions, cfg \in Configs |-> parse_vm_config(d, cfg)]

\* app.vm_list.iter().map(..).collect(), from the i-th VM on; nothing orders the
\* probes with the VMs' processes, so the environment may turn to e2 between
\* any two probes: the first `at` probes of the frame meet env, the others e2
RECURSIVE RenderItems(_, _, _, _)
RenderItems(r, i, at, e2) ==
    IF i > Len(vm_list)
    THEN r
    ELSE LET r1 == RenderItem(r, i, Classification[files[i], config],
                              Classification[files[i], config],
                              IF 2 * i - 1 <= at THEN env ELSE e2,
                              IF 2 * i <= at THEN env ELSE e2)
         IN  IF r1.panicked THEN r1 ELSE RenderItems(r1, i + 1, at, e2)

\* the log pane: the lines are cloned under the lock, the log is not written
RenderLogs(r) ==
    IF r.panicked
    THEN r
    ELSE LET l == Lock(r)
         IN  Unlock([l EXCEPT !.trace =
                        Append(@, Ev("main", "render", "logs", TRUE, Len(r.logs)))])

\* a frame ends in r, with the environment turned to e2
CommitFrame(r, e2) ==
    /\ logs' = r.logs
    /\ trace' = r.trace
    /\ mutex' = r.mutex
    /\ status' = IF r.panicked THEN "panicked" ELSE status
    /\ env' = e2
    /\ UNCHANGED <<config, vm_list, files, remmina_dir, selected, ret>>

\* terminal.draw(..): one frame, during which the environment turns to e2 after
\* `at` probes
DrawFrame(at, e2) == CommitFrame(RenderLogs(RenderItems(Run0(logs), 1, at, e2)), e2)

\* a frame between the commands. The loop draws a frame before every poll for a
\* key; the frames are left free to interleave with the keys here. Spec keeps
\* the environment of a behaviour as Init chose it; SpecFrame below lets it
\* turn during the frames
Draw ==
    /\ Accepting
    /\ DrawFrame(0, env)

Next ==
    \/ Draw
    \/ Quit
    \/ KeyDown
    \/ KeyUp
    \/ KeyR
    \/ KeyEnter
    \/ KeyC
    \/ KeyV
    \/ KeyS

Spec == Init /\ [][Next]_vars

\* The frames alone, in an environment that changes: nothing orders the probes
\* of a frame with the VMs' processes, so the environment may turn between any
\* two probes, and between two frames
FrameStep ==
    /\ status = "running"
    /\ \E e2 \in Worlds(Len(vm_list)) : \E at \in 0..(2 * Len(vm_list)) : DrawFrame(at, e2)

SpecFrame == Init /\ [][FrameStep]_vars

-----------------------------------------------------------------------------
(* The protocol classifier alone, over a family of definition texts        *)

\* most lines of a definition text
MaxLines == 2

\* most mappings of a definition text, over all its port_forwards lines
MaxMappings == 2

\* the fragments and the malformed lines, numbered
FragmentSeq == <<FragSsh, FragRdp, FragRdpB, FragVnc, FragBadHost, FragBigHost, FragThree>>

OddLineSeq == <<LineInverted, LineOpenOnly, LineNoParens, LineNoMarker>>

\* the shape of a port_forwards line with exactly k mappings: their numbers
RECURSIVE LinesWith(_)
LinesWith(k) ==
    IF k = 0
    THEN {<<>>}
    ELSE {Append(sh, f) : sh \in LinesWith(k - 1), f \in 1..Len(FragmentSeq)}

\* the shape of a malformed line: minus its number
OddShapes == {<<-i>> : i \in 1..Len(OddLineSeq)}

\* the texts that put one of `heads` before one of `tails`
Prepend(heads, tails) == {<<l>> \o t : l \in heads, t \in tails}

\* the shapes of the texts of exactly n lines holding at most m mappings in all
RECURSIVE TextsOf(_, _)
TextsOf(n, m) ==
    IF n = 0
    THEN {<<>>}
    ELSE UNION ({Prepend(LinesWith(k), TextsOf(n - 1, m - k)) : k \in 0..m}
                \cup {Prepend(OddShapes, TextsOf(n - 1, m))})

\* the line of a shape
LineOf(sh) ==
    IF sh # <<>> /\ sh[1] < 0
    THEN OddLineSeq[-sh[1]]
    ELSE PfLine([i \in 1..Len(sh) |-> FragmentSeq[sh[i]]])

\* the text of a shape
TextOf(shape) == [i \in 1..Len(shape) |-> LineOf(shape[i])]

\* the shapes of the texts of at most n lines
Texts(n) == UNION {TextsOf(k, MaxMappings) : k \in 0..n}

InitClassify ==
    /\ \/ \E shape \in Texts(MaxLines) : files = <<TextOf(shape)>>
       \/ files = <<Unreadable>>
    /\ config \in {c \in Configs : c.os_type = "linux" /\ c.remmina_overrides = NoOverrides}
    /\ vm_list = <<VmWin>>
    /\ env = EnvDown(1)
    /\ remmina_dir = <<>>
    /\ selected = 0
    /\ logs = <<>>
    /\ trace = <<>>
    /\ status = "running"
    /\ ret = Continue
    /\ mutex = <<>>

\* apply parse_vm_config to the definition
ClassifyStep ==
    /\ status = "running"
    /\ ret' = parse_vm_config(files[1], config)
    /\ status' = "done"
    /\ UNCHANGED <<config, vm_list, files, remmina_dir, selected, logs, trace, env, mutex>>

SpecClassify == InitClassify /\ [][ClassifyStep]_vars

-----------------------------------------------------------------------------
(* The profile resolver alone, over a family of profile directories        *)

\* most entries of the profile directory
MaxProfiles == 3

ProfileEntries == {ProfWinTest, ProfWINExact, ProfXWin, ProfWinTxt, ProfWinDir, ProfOther}

\* the directories of exactly n distinct entries, in every enumeration order
RECURSIVE DirsOf(_)
DirsOf(n) ==
    IF n = 0
    THEN {<<>>}
    ELSE {Append(d, e) : d \in DirsOf(n - 1), e \in ProfileEntries} \ 
         {d \in {Append(d, e) : d \in DirsOf(n - 1), e \in ProfileEntries} :
            \E i \in 1..(Len(d) - 1) : d[i] = d[Len(d)]}

VmWinT == <<"w", "i", "n", "-", "T">>

InitResolve ==
    /\ config \in {c \in Configs : c.os_type = "linux" /\ c.default_spice_port = DefaultSpicePort}
    /\ vm_list \in {<<VmWin>>, <<VmX>>, <<VmWinT>>}
    /\ files = <<DefSpice>>
    /\ env = EnvDown(1)
    /\ remmina_dir \in UNION {DirsOf(n) : n \in 0..MaxProfiles}
    /\ selected = 0
    /\ logs = <<>>
    /\ trace = <<>>
    /\ status = "running"
    /\ ret = Continue
    /\ mutex = <<>>

\* apply remmina_profile_for_vm to the VM
ResolveStep ==
    /\ status = "running"
    /\ ret' = remmina_profile_for_vm(vm_list[1], config, remmina_dir)
    /\ status' = "done"
    /\ UNCHANGED <<config, vm_list, files, remmina_dir, selected, logs, trace, env, mutex>>

SpecResolve == InitResolve /\ [][ResolveStep]_vars

-----------------------------------------------------------------------------
(* is_vm_running alone, over VM definitions and environments               *)

\* the oldest monitor socket, in seconds
MaxAge == 11

\* a bool returned
BoolRet(b) == [kind |-> IF b THEN "true" ELSE "false", port |-> 0]

\* the ports something may listen on
ProbePorts == {13389, 5901, DefaultSpicePort, DefaultSpicePort + 1}

\* what fs::metadata may find at the monitor socket path; a negative age is a
\* modification time in the future
ProbeMetas ==
    {MetaMissing}
    \cup {Meta(TRUE, s, FALSE, 0) : s \in BOOLEAN}
    \cup {Meta(TRUE, s, TRUE, a) : s \in BOOLEAN, a \in (-1)..MaxAge}

InitProbe ==
    /\ config \in {c \in Configs : c.os_type = "linux" /\ c.remmina_overrides = NoOverrides}
    /\ vm_list = <<VmWin>>
    /\ files \in {<<d>> : d \in Definitions}
    /\ env \in [open_ports : SUBSET ProbePorts,
                 monitor : {<<m>> : m \in ProbeMetas},
                 unix : BOOLEAN]
    /\ remmina_dir = <<>>
    /\ selected = 0
    /\ logs = <<>>
    /\ trace = <<>>
    /\ status = "running"
    /\ ret = Continue
    /\ mutex = <<>>

\* is_vm_running(vm_conf, config), given what its call of parse_vm_config
\* returns: a panic of the classification unwinds through it
IsVmRunningRet(proto, i, cfg, e) ==
    IF proto = Panicked THEN Panicked ELSE BoolRet(is_vm_running(proto, i, cfg, e))

\* apply is_vm_running to the VM
ProbeStep ==
    /\ status = "running"
    /\ ret' = IsVmRunningRet(parse_vm_config(files[1], config), 1, config, env)
    /\ status' = "done"
    /\ UNCHANGED <<config, vm_list, files, remmina_dir, selected, logs, trace, env, mutex>>

SpecProbe == InitProbe /\ [][ProbeStep]_vars

-----------------------------------------------------------------------------
(* load_config alone, over a family of configuration files                 *)

\* most lines of a configuration file
MaxConfigLines == 2

\* lines of a configuration file, numbered:
\*  1 default_spice_port=5931     2 default_spice_port = 5932 (spaced)
\*  3 default_spice_port=70000    4 default_spice_port=59x
\*  5 colour=5933                 6 os_type linux (no '=')
\*  7 override=Win, /w.remmina    8 override=Win
\*  9 override=x,/a,/b           10 remote_app=rdp
\* 11 os_type=macos              12 quickemu_dir=/vm
ConfigLineSeq ==
    <<
      <<"d", "e", "f", "a", "u", "l", "t", "_", "s", "p", "i", "c", "e", "_", "p", "o",
        "r", "t", "=", "5", "9", "3", "1">>,
      <<"d", "e", "f", "a", "u", "l", "t", "_", "s", "p", "i", "c", "e", "_", "p", "o",
        "r", "t", " ", "=", " ", "5", "9", "3", "2", " ">>,
      <<"d", "e", "f", "a", "u", "l", "t", "_", "s", "p", "i", "c", "e", "_", "p", "o",
        "r", "t", "=", "7", "0", "0", "0", "0">>,
      <<"d", "e", "f", "a", "u", "l", "t", "_", "s", "p", "i", "c", "e", "_", "p", "o",
        "r", "t", "=", "5", "9", "x">>,
      <<"c", "o", "l", "o", "u", "r", "=", "5", "9", "3", "3">>,
      <<"o", "s", "_", "t", "y", "p", "e", " ", "l", "i", "n", "u", "x">>,
      <<"o", "v", "e", "r", "r", "i", "d", "e", "=", "W", "i", "n", ",", " ", "/", "w",
        ".", "r", "e", "m", "m", "i", "n", "a">>,
      <<"o", "v", "e", "r", "r", "i", "d", "e", "=", "W", "i", "n">>,
      <<"o", "v", "e", "r", "r", "i", "d", "e", "=", "x", ",", "/", "a", ",", "/", "b">>,
      <<"r", "e", "m", "o", "t", "e", "_", "a", "p", "p", "=", "r", "d", "p">>,
      <<"o", "s", "_", "t", "y", "p", "e", "=", "m", "a", "c", "o", "s">>,
      <<"q", "u", "i", "c", "k", "e", "m", "u", "_", "d", "i", "r", "=", "/", "v", "m">>
    >>

\* the files of at most n of these lines
RECURSIVE ConfigTexts(_)
ConfigTexts(n) ==
    IF n = 0
    THEN {<<>>}
    ELSE ConfigTexts(n - 1)
         \cup {Append(t, ConfigLineSeq[i]) :
                  t \in {u \in ConfigTexts(n - 1) : Len(u) = n - 1}, i \in 1..Len(ConfigLineSeq)}

\* before load_config: the platform's default Config and the file it will read
InitConfig ==
    /\ \E os \in {OsLinux, OsMacos, OsWindows} : config = DefaultConfig(os)
    /\ \/ \E t \in ConfigTexts(MaxConfigLines) : files = <<t>>
       \/ files \in {<<NoConfigFile>>, <<Unreadable>>}
    /\ vm_list = <<>>
    /\ env = EnvDown(0)
    /\ remmina_dir = <<>>
    /\ selected = None
    /\ logs = <<>>
    /\ trace = <<>>
    /\ status = "running"
    /\ ret = Continue
    /\ mutex = <<>>

\* load_config: the history keeps the Config it starts from and the Config
\* after each line
LoadStep ==
    /\ status = "running"
    /\ config' = load_config(config.os_type, files[1])
    /\ trace' = <<config>> \o LoadLines(config, ConfigLines(files[1]))
    /\ status' = "done"
    /\ UNCHANGED <<vm_list, files, remmina_dir, selected, logs, env, ret, mutex>>

SpecConfig == InitConfig /\ [][LoadStep]_vars

-----------------------------------------------------------------------------
(* Claims about the protocol classifier (SpecClassify)                     *)

\* the definition text classified, and whether parse_vm_config has been applied
Text == files[1]

Classified == status = "done"

\* a line consulted for mappings: it has the marker, a '(' and a ')'
Consulted(line) ==
    contains(line, PortForwardsMarker) /\ find(line, "(") # None /\ rfind(line, ")") # None

\* a consulted line whose first '(' does not precede its last ')'
Inverted(line) == Consulted(line) /\ find(line, "(") > rfind(line, ")")

\* stands in the scan order for an inverted line
Abort == <<"!">>

\* the mappings of a line, left to right
MappingsOf(line) ==
    LET open == find(line, "(")
        close == rfind(line, ")")
    IN  IF ~(contains(line, PortForwardsMarker) /\ open # None /\ close # None)
        THEN <<>>
        ELSE IF open > close
             THEN <<Abort>>
             ELSE FilterNonBlank(split(Slice(line, open + 1, close), "\""))

\* the scan order: lines top to bottom, the mappings of each left to right
RECURSIVE ScanOrder(_)
ScanOrder(lines) ==
    IF lines = <<>> THEN <<>> ELSE MappingsOf(Head(lines)) \o ScanOrder(Tail(lines))

Items == IF Text = Unreadable THEN <<>> ELSE ScanOrder(Text)

HostOf(m) == ParseU16(split(m, ":")[1])

GuestOf(m) == ParseU16(split(m, ":")[2])

\* a mapping host:guest of two numbers
WellFormed(m) ==
    LET sp == split(m, ":")
    IN  Len(sp) = 2 /\ ParseU16(sp[1]) # ParseErr /\ ParseU16(sp[2]) # ParseErr

\* a mapping that decides the protocol
Recognized(m) ==
    LET sp == split(m, ":")
    IN  /\ Len(sp) = 2
        /\ ParseU16(sp[2]) \in {RdpGuestPort, VncGuestPort}
        /\ ParseU16(sp[1]) # ParseErr

\* the positions of a scan order that hold a forwarding mapping with guest port g
WithGuest(items, g) ==
    {i \in 1..Len(items) : WellFormed(items[i]) /\ GuestOf(items[i]) = g}

\* the positions of a scan order that end the scan
Decisive(items) == {i \in 1..Len(items) : items[i] = Abort \/ Recognized(items[i])}

\* C1 as stated, read for the calls that return: a text with a mapping for guest
\* port 3389 classifies as Rdp with the paired host port, one with a mapping for
\* 5900 as Vnc with the paired host port, and a text with no recognized mapping
\* as Spice with the default port
C1_AnyMappingDecides ==
    Classified /\ ret # Panicked =>
        LET items == Items
            rdp == WithGuest(items, RdpGuestPort)
            vnc == WithGuest(items, VncGuestPort)
        IN  /\ rdp # {} => ret.kind = "Rdp" /\ \E i \in rdp : ret.port = HostOf(items[i])
            /\ vnc # {} => ret.kind = "Vnc" /\ \E i \in vnc : ret.port = HostOf(items[i])
            /\ (\A i \in 1..Len(items) : ~Recognized(items[i])) =>
                   ret = Spice(config.default_spice_port)

\* C1 amended: the first recognized mapping in scan order decides: Rdp with its
\* host port when its guest port is 3389, Vnc with its host port when it is 5900;
\* Spice with the default port when nothing is recognized; an inverted line
\* scanned before any recognized mapping ends the call in a panic
C1_FirstRecognizedDecides ==
    Classified =>
        LET items == Items
            decisive == Decisive(items)
            first == items[CHOOSE i \in decisive : \A j \in decisive : i <= j]
        IN  ret = IF decisive = {}
                  THEN Spice(config.default_spice_port)
                  ELSE IF first = Abort
                       THEN Panicked
                       ELSE IF GuestOf(first) = RdpGuestPort
                            THEN Rdp(HostOf(first))
                            ELSE Vnc(HostOf(first))

\* a text with a 5900 mapping ahead of a 3389 mapping has been classified as Vnc
C1_Witness ==
    /\ Classified
    /\ Text = <<PfLine(<<FragVnc, FragRdp>>)>>
    /\ ret = Vnc(5901)

\* C2: classification always returns some RemoteProtocol, whatever the text
C2_AlwaysReturnsProtocol == Classified => ret.kind \in {"Rdp", "Vnc", "Spice"}

\* the lines of the text that hold the marker
MarkerLines ==
    IF Text = Unreadable
    THEN {}
    ELSE {i \in 1..Len(Text) : contains(Text[i], PortForwardsMarker)}

FirstMarkerLine == CHOOSE i \in MarkerLines : \A j \in MarkerLines : i <= j

\* the first line with the marker yields no recognized mapping
FirstMarkerLineUndecided ==
    /\ MarkerLines # {}
    /\ \A k \in 1..Len(MappingsOf(Text[FirstMarkerLine])) :
          ~Recognized(MappingsOf(Text[FirstMarkerLine])[k])

\* what a scan order classifies as
DecidedBy(items, cfg) ==
    LET decisive == Decisive(items)
        first == items[CHOOSE i \in decisive : \A j \in decisive : i <= j]
    IN  IF decisive = {}
        THEN Spice(cfg.default_spice_port)
        ELSE IF first = Abort
             THEN Panicked
             ELSE IF GuestOf(first) = RdpGuestPort
                  THEN Rdp(HostOf(first))
                  ELSE Vnc(HostOf(first))

\* C16 as stated, read for the calls that return: when the first line with the
\* marker yields no recognized mapping the result is Spice with the default
\* port, whatever the later lines declare
C16_OnlyFirstMarkerLine ==
    (Classified /\ ret # Panicked /\ FirstMarkerLineUndecided) =>
        ret = Spice(config.default_spice_port)

\* C16 amended: when the first line with the marker yields no recognized
\* mapping, the scan goes on: the call panics if that line is inverted, and
\* otherwise the result is what the lines after it classify as
C16_LaterLinesScanned ==
    (Classified /\ FirstMarkerLineUndecided) =>
        ret = IF Inverted(Text[FirstMarkerLine])
              THEN Panicked
              ELSE DecidedBy(ScanOrder(SubSeq(Text, FirstMarkerLine + 1, Len(Text))), config)

\* a port_forwards line for ssh only, then one for RDP: classified as Rdp
C16_Witness ==
    /\ Classified
    /\ Text = <<PfLine(<<FragSsh>>), PfLine(<<FragRdp>>)>>
    /\ ret = Rdp(13389)

\* a scanned item that parses: host:guest with two 16-bit numbers, or the
\* stand-in for an inverted line
Parses(m) == m = Abort \/ WellFormed(m)

\* C23: a mapping that does not parse is skipped without error and the mappings
\* after it are still examined: the result is the one the text would have
\* without its unparsable mappings, Spice with the default port when that
\* leaves nothing recognized
C23_MalformedSkipped ==
    Classified => ret = DecidedBy(SelectSeq(Items, Parses), config)

\* an unparsable host port ahead of a VNC mapping on the same line: Vnc
C23_Witness ==
    /\ Classified
    /\ Text = <<PfLine(<<FragBadHost, FragVnc>>)>>
    /\ ret = Vnc(5901)

-----------------------------------------------------------------------------
(* Claims about the connection cascade (Spec)                              *)

\* positions of the history where ev happened
At(ev) == {i \in 1..Len(trace) : trace[i].ev = ev}

\* positions of the history that lie in function fn
In(fn) == {i \in 1..Len(trace) : trace[i].fn = fn}

\* the functions a connect_vm or force_spice_connect call runs in
RdpVncFns ==
    {"connect_rdp_windows", "connect_rdp_macos", "connect_rdp_linux",
     "connect_vnc_windows", "connect_vnc_macos", "connect_vnc_linux"}

SpiceFns == {"connect_spice_windows", "connect_spice_macos", "connect_spice_linux"}

ConnectFns == {"connect_vm", "force_spice_connect"} \cup RdpVncFns \cup SpiceFns

\* the spawn attempts of the connect_vm or force_spice_connect call of the command
ConnectSpawns == {i \in At("spawn") : trace[i].fn \in ConnectFns}

\* the platform's SPICE cascade
SpiceFn == IF config.os_type = "windows"
           THEN "connect_spice_windows"
           ELSE IF config.os_type = "macos" THEN "connect_spice_macos"
                ELSE "connect_spice_linux"

\* the platform's cascade for a protocol
CascadeFn(kind) ==
    IF kind = "Spice"
    THEN SpiceFn
    ELSE IF kind = "Rdp"
         THEN IF config.os_type = "windows"
              THEN "connect_rdp_windows"
              ELSE IF config.os_type = "macos" THEN "connect_rdp_macos"
                   ELSE "connect_rdp_linux"
         ELSE IF config.os_type = "windows"
              THEN "connect_vnc_windows"
              ELSE IF config.os_type = "macos" THEN "connect_vnc_macos"
                   ELSE "connect_vnc_linux"

\* the command called connect_vm / force_spice_connect
CalledConnectVm == \E i \in At("call") : trace[i].what = "connect_vm"

CalledForceSpice == \E i \in At("call") : trace[i].what = "force_spice_connect"

\* C3: within one connect_vm or force_spice_connect call, every spawn attempt
\* that is followed by another spawn attempt has failed
C3_StopsAtFirstSuccess ==
    \A i \in ConnectSpawns : \A j \in ConnectSpawns : i < j => ~trace[i].ok

\* on Linux an RDP connect ended with the Remmina attempt spawning, after the
\* profile launches before it had failed
C3_Witness ==
    /\ Len(trace) > 0
    /\ trace[Len(trace)] = Ev("connect_rdp_linux", "spawn", "remote_app --quiet -p rdp", TRUE, 0)
    /\ Cardinality(ConnectSpawns) >= 2

\* the spawn attempts of connect_spice_linux, and the lines it logged
SpiceLinuxSpawns == At("spawn") \cap In("connect_spice_linux")

SpiceLinuxLogs == At("log") \cap In("connect_spice_linux")

\* C4: when all three candidates of connect_spice_linux fail to spawn, it has
\* logged one failure line for each of them, three in all
C4_OneFailureLinePerCandidate ==
    (config.os_type = "linux"
       /\ Cardinality(SpiceLinuxSpawns) = 3
       /\ \A i \in SpiceLinuxSpawns : ~trace[i].ok)
    => Cardinality(SpiceLinuxLogs) = 3

\* the spawn attempts connect_vm made itself: the launch with the resolved profile
ProfileLaunches == At("spawn") \cap In("connect_vm")

ProfileLaunched == \E i \in ProfileLaunches : trace[i].ok

\* the calls of parse_vm_config that connect_vm made
ConnectClassified == At("classify") \cap In("connect_vm")

\* the spawn attempts of the protocol-specific and SPICE cascades
CascadeSpawns == {i \in At("spawn") : trace[i].fn \in RdpVncFns \cup SpiceFns}

\* C7: when connect_vm's launch with the resolved profile spawns, the call ends
\* there: it classifies nothing and no protocol-specific or SPICE spawn is attempted
C7_ProfileLaunchEndsCall ==
    \A i \in ProfileLaunches :
        trace[i].ok => /\ i = Len(trace)
                       /\ ConnectClassified = {}
                       /\ CascadeSpawns = {}

\* Enter on a VM with a matching profile: the hypervisor spawned, then the
\* profile launch spawned
C7_Witness ==
    /\ ProfileLaunched
    /\ \E i \in At("spawn") \cap In("start_vm") : trace[i].ok
    /\ \E i \in At("resolve") \cap In("connect_vm") : trace[i].ok

\* C8: a connect_vm call whose profile launch did not spawn (no profile, or a
\* failed launch) classifies the protocol and then enters the platform's cascade
\* for the classified protocol, with the classified port
C8_FallsThroughToCascade ==
    (CalledConnectVm /\ ~ProfileLaunched) =>
        \E c \in ConnectClassified :
            /\ trace[c].what \in {"Rdp", "Vnc", "Spice"}
            /\ c < Len(trace)
            /\ trace[c + 1] = Ev(CascadeFn(trace[c].what), "call",
                                 CascadeFn(trace[c].what), TRUE, trace[c].port)

\* a profile launch failed and the VNC cascade of Linux was entered after it
C8_Witness ==
    /\ \E i \in ProfileLaunches : ~trace[i].ok
    /\ \E c \in ConnectClassified :
          /\ trace[c].what = "Vnc"
          /\ c < Len(trace)
          /\ trace[c + 1].fn = "connect_vnc_linux"

\* the steps of the RDP/VNC cascade, and the entries into the SPICE cascade
RdpVncSteps == {i \in At("spawn") : trace[i].fn \in RdpVncFns}

SpiceCalls == {i \in At("call") : trace[i].fn \in SpiceFns}

ClassifiedRdpOrVnc == \E c \in ConnectClassified : trace[c].what \in {"Rdp", "Vnc"}

\* C9: for a VM that connect_vm classified RDP or VNC, the platform's SPICE
\* cascade is run, with the configured default SPICE port, exactly when every
\* step of the RDP/VNC cascade failed to spawn
C9_SpiceIffRdpVncExhausted ==
    ClassifiedRdpOrVnc =>
        /\ (SpiceCalls # {}) <=> (\A i \in RdpVncSteps : ~trace[i].ok)
        /\ \A i \in SpiceCalls : /\ trace[i].fn = SpiceFn
                                  /\ trace[i].port = config.default_spice_port

\* an RDP VM on Linux with a configured SPICE port: both RDP steps failed and
\* the SPICE cascade was entered with that port
C9_Witness ==
    /\ \E c \in ConnectClassified : trace[c].what = "Rdp"
    /\ Cardinality(RdpVncSteps) >= 2
    /\ config.default_spice_port = DefaultSpicePort + 1
    /\ \E i \in SpiceCalls : trace[i] = Ev("connect_spice_linux", "call", "connect_spice_linux",
                                            TRUE, DefaultSpicePort + 1)

\* C10: a force_spice_connect call classifies nothing, runs the platform's SPICE
\* cascade with the configured default SPICE port, and runs nothing of an RDP or
\* VNC cascade, whatever the VM's definition declares
C10_ForceSpiceOnlySpice ==
    CalledForceSpice =>
        /\ At("classify") = {}
        /\ \A i \in 1..Len(trace) :
              trace[i].fn \in {"main", "force_spice_connect", SpiceFn}
        /\ \A i \in At("spawn") : trace[i].fn = SpiceFn
        /\ \E i \in SpiceCalls :
              /\ trace[i].port = config.default_spice_port
              /\ i > 1
              /\ trace[i - 1] = Ev("force_spice_connect", "call", "force_spice_connect",
                                   TRUE, config.default_spice_port)
        /\ \A i \in SpiceCalls : trace[i].port = config.default_spice_port

\* a forced connect on a VM whose definition forwards RDP: a SPICE viewer spawned
C10_Witness ==
    /\ CalledForceSpice
    /\ selected \in 0..(Len(vm_list) - 1)
    /\ files[selected + 1] = DefRdp
    /\ \E i \in At("spawn") : trace[i].fn = SpiceFn /\ trace[i].ok

\* C11: every spawn attempt of a connect and its outcome is logged as it happens:
\* each function of the cascade has logged a line for each of its attempts and
\* another for each of its failed attempts
C11_AttemptsAndOutcomesLogged ==
    \A fn \in ConnectFns :
        Cardinality(At("log") \cap In(fn))
            >= Cardinality(At("spawn") \cap In(fn))
               + Cardinality({i \in At("spawn") \cap In(fn) : ~trace[i].ok})

\* a is a prefix of b
IsPrefix(a, b) == Len(a) <= Len(b) /\ SubSeq(b, 1, Len(a)) = a

\* C12: the log is append-only: every step of the program, a frame included,
\* leaves the log it found as a prefix of the log it leaves
C12_LogAppendOnly == [][IsPrefix(logs, logs')]_vars

\* a stop was logged after an earlier command's lines, which are still there
C12_Witness ==
    /\ Len(logs) >= 4
    /\ logs[1] = "Application started."
    /\ logs[Len(logs) - 1] = "Stopping VM..."
    /\ \E i \in 2..(Len(logs) - 2) : logs[i] \in {"Launching VM headless...",
                                                   "Launching VM normally..."}

\* what start_vm did: its classification, its spawn attempts, its settle delay
StartClassified == At("classify") \cap In("start_vm")

StartSpawns == At("spawn") \cap In("start_vm")

StartSleeps == At("sleep") \cap In("start_vm")

\* C13: start_vm makes exactly one hypervisor spawn attempt, with --display none
\* exactly when the VM classified as Rdp or Vnc
C13_HeadlessIffRdpOrVnc ==
    \A c \in StartClassified :
        trace[c].what \in {"Rdp", "Vnc", "Spice"} =>
            /\ Cardinality(StartSpawns) = 1
            /\ \A i \in StartSpawns :
                  trace[i].what = IF trace[c].what \in {"Rdp", "Vnc"}
                                  THEN "quickemu --vm --display none"
                                  ELSE "quickemu --vm"

\* a VM that classified as Spice was launched without the flag
C13_Witness ==
    /\ \E c \in StartClassified : trace[c].what = "Spice"
    /\ \E i \in StartSpawns : trace[i].what = "quickemu --vm" /\ trace[i].ok

\* C14: no error is fatal: no start, connect, force-SPICE-connect or stop
\* command ends the program in a panic, whatever the spawn outcomes
C14_NeverFatal ==
    status = "panicked" =>
        \/ trace = <<>>
        \/ trace[1].fn \notin {"start_vm", "connect_vm", "force_spice_connect", "stop_vm"}

\* the launches with a Remmina profile, by connect_vm and by the Linux cascades
ProfileLaunchCmds == {"remote_app -c profile", "remote_app --quiet -c profile"}

\* C17: on Linux, for a VM classified Rdp, the RDP cascade makes at most two
\* spawn attempts and the launch with the profile is attempted at most once in
\* the connect_vm call
C17_ProfileLaunchedOnce ==
    (config.os_type = "linux" /\ \E c \in ConnectClassified : trace[c].what = "Rdp") =>
        /\ Cardinality(At("spawn") \cap In("connect_rdp_linux")) <= 2
        /\ Cardinality({i \in ConnectSpawns : trace[i].what \in ProfileLaunchCmds}) <= 1

\* C18: start_vm sleeps the settle delay right after a hypervisor spawn that
\* succeeded and only then, so before any connection spawn attempt of the
\* command; after a failed spawn it logs one error line and does not sleep
C18_SettleIffSpawned ==
    /\ \A i \in StartSpawns :
          /\ i < Len(trace)
          /\ trace[i + 1] = IF trace[i].ok
                            THEN Ev("start_vm", "sleep", "thread::sleep", TRUE, SettleDelaySecs)
                            ELSE Ev("start_vm", "log", "Error launching VM", TRUE, 0)
          /\ (StartSleeps # {}) <=> trace[i].ok
          /\ Cardinality({j \in At("log") : trace[j].what = "Error launching VM"})
                = IF trace[i].ok THEN 0 ELSE 1
    /\ \A k \in StartSleeps : /\ k - 1 \in StartSpawns
                              /\ \A j \in ConnectSpawns : k < j

\* Enter: the hypervisor spawned, the delay was slept, and a connection was
\* attempted after it
C18_Witness ==
    /\ StartSleeps # {}
    /\ ConnectSpawns # {}

\* what stop_vm logs after the kill request
StopOutcome(ok) == IF ok THEN "Stop command issued." ELSE "Error stopping VM"

\* C19: stop_vm logs 'Stopping VM', makes one spawn attempt, the kill request,
\* and logs one outcome line that depends on that spawn alone
C19_StopLogsTwoLines ==
    (trace # <<>> /\ trace[1].fn = "stop_vm") =>
        /\ Len(trace) = 4
        /\ trace[2] = Ev("stop_vm", "log", "Stopping VM...", TRUE, 0)
        /\ trace[3] = Ev("stop_vm", "spawn", "quickemu --kill --vm", trace[3].ok, 0)
        /\ trace[4] = Ev("stop_vm", "log", StopOutcome(trace[3].ok), TRUE, 0)
        /\ Len(logs) >= 2
        /\ SubSeq(logs, Len(logs) - 1, Len(logs)) = <<"Stopping VM...", StopOutcome(trace[3].ok)>>

\* the kill request failed to spawn for a VM that is up
C19_Witness ==
    /\ trace # <<>>
    /\ trace[1].fn = "stop_vm"
    /\ logs[Len(logs)] = "Error stopping VM"
    /\ env.open_ports # {}

\* the line the 'connect running' command logs for a VM that is down
NotRunningLine == "VM is not running; cannot connect."

\* the probe of a 'connect running' command: the only history with one probe (a
\* frame probes every VM twice, the other commands never)
ConnectRunningProbe == {p \in At("probe") : Cardinality(At("probe")) = 1}

\* C24: the 'connect running' command starts a connection cascade only when its
\* probe reported the VM as running; otherwise it makes no spawn attempt and
\* appends exactly one 'not running' line
C24_ConnectOnlyIfRunning ==
    \A p \in ConnectRunningProbe :
        IF trace[p].ok
        THEN /\ p < Len(trace)
             /\ trace[p + 1] = Ev("connect_vm", "call", "connect_vm", TRUE, 0)
        ELSE /\ trace = SubSeq(trace, 1, p) \o <<Ev("main", "log", NotRunningLine, TRUE, 0)>>
             /\ At("spawn") = {}
             /\ logs[Len(logs)] = NotRunningLine
             /\ ~CalledConnectVm

\* the probe found the VM down: one line, no connect
C24_Witness ==
    /\ \E p \in ConnectRunningProbe : ~trace[p].ok
    /\ logs[Len(logs)] = NotRunningLine

\* C27: a connect_vm call ends after at most 7 spawn attempts (the profile
\* launch, the three steps of a Linux RDP or VNC cascade with its own profile
\* launch, the three of the SPICE cascade), and no function attempts a command
\* twice
C27_AtMostSevenAttempts ==
    CalledConnectVm =>
        /\ Cardinality(ConnectSpawns) <= 7
        /\ \A i \in ConnectSpawns : \A j \in ConnectSpawns :
              (i # j /\ trace[i].fn = trace[j].fn) => trace[i].what # trace[j].what

\* the worst case: Linux, RDP or VNC, a resolved profile, every spawn failing
C27_Witness ==
    /\ CalledConnectVm
    /\ config.os_type = "linux"
    /\ Cardinality(ConnectSpawns) = 7
    /\ \A i \in ConnectSpawns : ~trace[i].ok

\* the histories the Enter key can leave from the current state
EnterRuns ==
    IF Accepting /\ selected # None /\ InBounds
    THEN StartAndConnect(selected + 1)
    ELSE {}

\* C28: on Enter, connect_vm is called after start_vm whether or not the
\* hypervisor spawned, and the hypervisor spawn attempt comes before every
\* connection spawn attempt
C28_FailedStartStillConnects ==
    \A r \in EnterRuns :
        ~r.panicked =>
            \E c \in 1..Len(r.trace) :
                /\ r.trace[c] = Ev("connect_vm", "call", "connect_vm", TRUE, 0)
                /\ \E i \in 1..(c - 1) : r.trace[i].fn = "start_vm" /\ r.trace[i].ev = "spawn"
                /\ \A i \in 1..Len(r.trace) :
                      r.trace[i].ev = "spawn" => (r.trace[i].fn = "start_vm" <=> i < c)

\* the hypervisor failed to spawn and a connection was attempted all the same
C28_Witness ==
    /\ \E i \in StartSpawns : ~trace[i].ok
    /\ ConnectSpawns # {}
    /\ \A i \in StartSpawns : \A j \in ConnectSpawns : i < j

\* C25: after any sequence of navigation keys and for every list length, zero
\* included, a selection that exists is an index of the VM list, the index
\* arithmetic does not underflow, and no command indexes the list out of
\* bounds (a panic that leaves no history is one of the index arithmetic or of
\* `app.vm_list[i]`)
C25_SelectionInBounds ==
    /\ selected # None => selected < Len(vm_list)
    /\ ~(status = "panicked" /\ trace = <<>>)

\* a drawn frame: its history ends with the log pane
Frame == trace # <<>> /\ trace[Len(trace)].ev = "render"

IsProbe(e) == e.ev = "probe"

\* the probes of the history, in order: the frame's (2j-1)-th probe decides the
\* spinner of the j-th VM, its 2j-th the style
Probes == SelectSeq(trace, IsProbe)

ShownWithSpinner(j) == Probes[2 * j - 1].ok

ShownHighlighted(j) == Probes[2 * j].ok

\* C21: within one frame the two running annotations of a VM agree: it is shown
\* with the spinner if and only if it is shown highlighted, also when its
\* reachability changes during the frame
C21_AnnotationsAgree ==
    Frame => \A j \in 1..Len(vm_list) : ShownWithSpinner(j) <=> ShownHighlighted(j)

\* the entries of the history that happen between a lock() and the release
\* that follows it
UnderLock ==
    UNION { (mutex[k].at + 1)..mutex[k + 1].at : k \in {j \in 1..(Len(mutex) - 1) : j % 2 = 1} }

\* C26: lock() and release alternate and the mutex is free when the command
\* ends, so no lock() meets a mutex the thread holds; what happens under the
\* lock are the appends (and the frame's reading of the lines), all of them
\* and nothing else: no spawn attempt, no settle delay, no call of a function
C26_LockDiscipline ==
    /\ Len(mutex) % 2 = 0
    /\ \A k \in 1..Len(mutex) : mutex[k].op = IF k % 2 = 1 THEN "lock" ELSE "unlock"
    /\ UnderLock = At("log") \cup At("render")

\* a forced SPICE connect: the line of main is appended and the lock released
\* before force_spice_connect is called and spawns
C26_Witness ==
    /\ CalledForceSpice
    /\ At("spawn") # {}
    /\ trace[1].ev = "log"
    /\ SubSeq(mutex, 1, 2) = <<[op |-> "lock", at |-> 0], [op |-> "unlock", at |-> 1]>>

-----------------------------------------------------------------------------
(* Claims about the configuration file (SpecConfig)                        *)

Loaded == status = "done"

\* the Config before and after the k-th line of the file
BeforeLine(k) == trace[k]

AfterLine(k) == trace[k + 1]

KnownKeys == {KeyRemoteApp, KeyQuickemuDir, KeyDefaultSpicePort, KeyOsType, KeyOverride}

\* key=value lines the loader has no use for: an unknown key, a port that is no
\* 16-bit unsigned number, an override that is not two comma-separated parts
UnknownKeyLine(line) ==
    find(line, "=") # None /\ trim(split(line, "=")[1]) \notin KnownKeys

BadPortLine(line) ==
    /\ find(line, "=") # None
    /\ trim(split(line, "=")[1]) = KeyDefaultSpicePort
    /\ ParseU16(trim(SubSeq(line, find(line, "=") + 2, Len(line)))) = ParseErr

BadOverrideLine(line) ==
    /\ find(line, "=") # None
    /\ trim(split(line, "=")[1]) = KeyOverride
    /\ Len(split(SubSeq(line, find(line, "=") + 2, Len(line)), ",")) # 2

\* C22: a line with an unknown key, a port line whose value is no 16-bit
\* unsigned number and an override line that is not two comma-separated parts
\* leave every field of the Config as it was before the line
C22_IgnoredLinesChangeNothing ==
    Loaded =>
        \A k \in 1..(Len(trace) - 1) :
            LET line == files[1][k]
            IN  (UnknownKeyLine(line) \/ BadPortLine(line) \/ BadOverrideLine(line))
                    => AfterLine(k) = BeforeLine(k)

\* a port set by the first line survives a second port line that is too large
C22_Witness ==
    /\ Loaded
    /\ files[1] = <<ConfigLineSeq[1], ConfigLineSeq[3]>>
    /\ config.default_spice_port = DefaultSpicePort + 1

-----------------------------------------------------------------------------
(* Claims about running detection (SpecProbe)                              *)

\* is_vm_running has been applied
Probed == status = "done"

\* C15: is_vm_running never fails: it returns a bool, and for a VM classified
\* Rdp or Vnc the bool tells whether the classified host port accepts a connection
C15_ProbeNeverFails ==
    Probed =>
        /\ ret \in {BoolRet(TRUE), BoolRet(FALSE)}
        /\ LET proto == parse_vm_config(files[1], config)
           IN  proto.kind \in {"Rdp", "Vnc"} => ret = BoolRet(proto.port \in env.open_ports)

\* C20: on unix, for a VM classified Spice, is_vm_running is true exactly when
\* the monitor socket path exists, is a socket, and has a readable modification
\* time that is not in the future and less than 10 seconds old
C20_MonitorSocketFresh ==
    (Probed /\ env.unix /\ parse_vm_config(files[1], config).kind = "Spice") =>
        LET meta == env.monitor[1]
        IN  ret = BoolRet(/\ meta.exists
                          /\ meta.is_socket
                          /\ meta.mtime_ok
                          /\ meta.age >= 0
                          /\ meta.age < MonitorFreshSecs)

\* a socket modified exactly 10 seconds ago: not running
C20_Witness ==
    /\ Probed
    /\ env.unix
    /\ files = <<DefSpice>>
    /\ env.monitor[1] = Meta(TRUE, TRUE, TRUE, MonitorFreshSecs)
    /\ ret = BoolRet(FALSE)

-----------------------------------------------------------------------------
(* Claims about profile resolution (SpecResolve)                           *)

\* remmina_profile_for_vm has returned
Resolved == status = "done"

\* the case-folded VM identity
VmStem == to_lowercase(vm_list[1])

HasOverride == VmStem \in DOMAIN config.remmina_overrides

\* the profile files whose case-folded base name contains the VM identity
MatchSet ==
    {remmina_dir[i].path : i \in {j \in 1..Len(remmina_dir) :
        /\ remmina_dir[j].is_file
        /\ remmina_dir[j].path.ext = "remmina"
        /\ contains(to_lowercase(remmina_dir[j].path.stem), VmStem)}}

ExactSet == {p \in MatchSet : to_lowercase(p.stem) = VmStem}

\* C5: when the override map has the case-folded VM identity as a key, the
\* resolution returns that override path without reading the profile directory
C5_OverrideWins ==
    (Resolved /\ HasOverride) =>
        ret = SomePath(config.remmina_overrides[VmStem], FALSE)

\* an override won over a directory that holds an exact match
C5_Witness ==
    /\ Resolved
    /\ HasOverride
    /\ ExactSet # {}
    /\ ret.path = OverridePath

\* C6: with no override, the resolution returns none when no profile file
\* matches, the single match when there is one, and the exact match when there
\* are several matches and one of them is exact
C6_AutoDetect ==
    (Resolved /\ ~HasOverride) =>
        /\ MatchSet = {} => ~ret.some
        /\ Cardinality(MatchSet) = 1 => ret.some /\ ret.path \in MatchSet
        /\ (Cardinality(MatchSet) > 1 /\ ExactSet # {}) => ret.some /\ ret.path \in ExactSet

\* several matches, the exact one not the first in the directory, and it is returned
C6_Witness ==
    /\ Resolved
    /\ ~HasOverride
    /\ Cardinality(MatchSet) > 1
    /\ remmina_dir[1].path \in MatchSet \ ExactSet
    /\ ret.some
    /\ ret.path \in ExactSet

====
